---- MODULE Spec2Model ----
(***************************************************************************)
(* unix-socket-http-veil: an HTTP relay in front of a UNIX domain socket   *)
(* that forwards only the (method, path) pairs of an access rules list.    *)
(*                                                                         *)
(* The model follows the method-keyed program of src/src/veil.go (lines    *)
(* 238-431): determineAccessRules compiles the rule lines into a map from  *)
(* method to a sorted path list, and the handler returned by               *)
(* obtainRequestHandler authorizes each request against that map and       *)
(* relays it to the target socket under a 5 second deadline.               *)
(*                                                                         *)
(* Strings are sequences of one-character strings, compared bytewise as Go *)
(* compares strings.                                                        *)
(***************************************************************************)
EXTENDS Integers, Sequences, FiniteSets, TLC

\* ------------------------------------------------------------------------
\* Bytes and strings
\* ------------------------------------------------------------------------

\* The byte value of each character the model uses (ASCII).
Ord(c) ==
  CASE c = "#" -> 35 [] c = "%" -> 37 [] c = "/" -> 47 [] c = "1" -> 49
    [] c = "4" -> 52 [] c = ":" -> 58 [] c = "?" -> 63 [] c = "A" -> 65
    [] c = "C" -> 67 [] c = "D" -> 68 [] c = "E" -> 69 [] c = "G" -> 71
    [] c = "H" -> 72 [] c = "I" -> 73 [] c = "L" -> 76 [] c = "N" -> 78
    [] c = "O" -> 79 [] c = "P" -> 80 [] c = "S" -> 83 [] c = "T" -> 84
    [] c = "U" -> 85 [] c = "a" -> 97 [] c = "b" -> 98 [] c = "e" -> 101
    [] c = "h" -> 104 [] c = "i" -> 105 [] c = "n" -> 110 [] c = "p" -> 112
    [] c = "r" -> 114 [] c = "t" -> 116 [] c = "u" -> 117 [] c = "x" -> 120
    [] c = "~" -> 126

Alphabet ==
  {"#", "%", "/", "1", "4", ":", "?", "A", "C", "D", "E", "G", "H", "I", "L",
   "N", "O", "P", "S", "T", "U", "a", "b", "e", "h", "i", "n", "p", "r", "t",
   "u", "x", "~"}

\* The character of a byte value.
Chr(n) == CHOOSE c \in Alphabet : Ord(c) = n

\* Go's s < t on strings: bytewise lexicographic order.
RECURSIVE StrLess(_, _)
StrLess(s, t) ==
  IF t = <<>> THEN FALSE
  ELSE IF s = <<>> THEN TRUE
  ELSE IF Ord(Head(s)) # Ord(Head(t)) THEN Ord(Head(s)) < Ord(Head(t))
  ELSE StrLess(Tail(s), Tail(t))

\* strings.Index(s, c) for a one-byte c, 1-based; 0 when c does not occur.
RECURSIVE IndexFrom(_, _, _)
IndexFrom(s, c, i) ==
  IF i > Len(s) THEN 0
  ELSE IF s[i] = c THEN i
  ELSE IndexFrom(s, c, i + 1)

IndexByte(s, c) == IndexFrom(s, c, 1)

\* strings.Split(s, sep) for a one-byte separator: the substrings between
\* the separators, one more than there are separators.
RECURSIVE Split(_, _)
Split(s, sep) ==
  LET i == IndexByte(s, sep) IN
  IF i = 0 THEN <<s>>
  ELSE <<SubSeq(s, 1, i - 1)>> \o Split(SubSeq(s, i + 1, Len(s)), sep)

\* ------------------------------------------------------------------------
\* Program constants
\* ------------------------------------------------------------------------

accessRuleStringDelimiter == "~"

unauthorizedMsgString ==
  "{\"type\":\"error\",\"status-code\":401,\"status\":\"Unauthorized\",\"result\":{\"message\":\"access dEEEEEenied\",\"kind\":\"login-required\"}}"
badRequestString ==
  "{\"type\":\"error\",\"status-code\":400,\"status\":\"Invalid Request\",\"result\":{\"message\":\"bad request\"}}"
requestTimeoutString ==
  "{\"type\":\"error\",\"status-code\":408,\"status\":\"Request Timeout\",\"result\":{\"message\":\"request timed out\"}}"
internalErrorString ==
  "{\"type\":\"error\",\"status-code\":500,\"status\":\"Internal Server Error\",\"result\":{\"message\":\"internal server error\"}}"

\* The deadline of the outbound call, in seconds.
TimeoutSeconds == 5

MethodGet == <<"G", "E", "T">>
MethodPost == <<"P", "O", "S", "T">>
MethodDelete == <<"D", "E", "L", "E", "T", "E">>
MethodPatch == <<"P", "A", "T", "C", "H">>
MethodPut == <<"P", "U", "T">>
MethodOptions == <<"O", "P", "T", "I", "O", "N", "S">>

\* The cases of the handler's switch on r.Method.
SupportedMethods == {MethodGet, MethodPost, MethodDelete, MethodPatch, MethodPut}

\* The switch with every method taking the relaying case.
IsSupportedAnyMethod(method) == TRUE

\* Whether the switch takes the relaying case for the method.
IsSupported(method) == method \in SupportedMethods

\* ------------------------------------------------------------------------
\* determineAccessRules
\* ------------------------------------------------------------------------

\* The map with key k set to v (accessRulesMap[k] = v).
MapPut(m, k, v) ==
  [x \in (DOMAIN m) \cup {k} |-> IF x = k THEN v ELSE m[x]]

EmptyMap == [x \in {} |-> <<>>]

\* AddRule with the field count checked as "at least two".
AddRuleAtLeastTwoFields(m, rule) ==
  LET splitRule == Split(rule, accessRuleStringDelimiter) IN
  IF Len(splitRule) < 2 THEN m
  ELSE LET ruleHTTPMethod == splitRule[1]
           ruleResourcePath == splitRule[2]
           accessRulesForMethod ==
             IF ruleHTTPMethod \in DOMAIN m THEN m[ruleHTTPMethod] ELSE <<>>
       IN MapPut(m, ruleHTTPMethod, Append(accessRulesForMethod, ruleResourcePath))

\* One iteration of the loop over the rule lines: a line that does not split
\* into exactly two fields is skipped.
AddRule(m, rule) ==
  LET splitRule == Split(rule, accessRuleStringDelimiter) IN
  IF Len(splitRule) # 2 THEN m
  ELSE LET ruleHTTPMethod == splitRule[1]
           ruleResourcePath == splitRule[2]
           accessRulesForMethod ==
             IF ruleHTTPMethod \in DOMAIN m THEN m[ruleHTTPMethod] ELSE <<>>
       IN MapPut(m, ruleHTTPMethod, Append(accessRulesForMethod, ruleResourcePath))

\* The first loop: the lines in order, from the empty map.
RECURSIVE CollectRules(_, _)
CollectRules(m, lines) ==
  IF lines = <<>> THEN m
  ELSE CollectRules(AddRule(m, Head(lines)), Tail(lines))

\* s with x inserted before the first element greater than x.
RECURSIVE InsertSorted(_, _)
InsertSorted(s, x) ==
  IF s = <<>> THEN <<x>>
  ELSE IF StrLess(x, Head(s)) THEN <<x>> \o s
  ELSE <<Head(s)>> \o InsertSorted(Tail(s), x)

RECURSIVE SortFrom(_, _)
SortFrom(acc, s) ==
  IF s = <<>> THEN acc ELSE SortFrom(InsertSorted(acc, Head(s)), Tail(s))

\* The list left in the order of the rule lines.
SortStringsKeepsOrder(s) == s

\* sort.Strings: the list in increasing order, every element kept.
SortStrings(s) == SortFrom(<<>>, s)

\* The second loop: every list sorted in place.
SortAll(m) == [k \in DOMAIN m |-> SortStrings(m[k])]

determineAccessRules(lines) == SortAll(CollectRules(EmptyMap, lines))

\* The orders in which a range over a map with these keys may visit them.
KeyOrders(keys) ==
  {order \in [1..Cardinality(keys) -> keys] :
     \A i, j \in 1..Cardinality(keys) : order[i] = order[j] => i = j}

\* The second loop leaving after the first key it visits.
SortInOrderFirstOnly(m, order) ==
  IF order = <<>> THEN m
  ELSE MapPut(m, Head(order), SortStrings(m[Head(order)]))

\* The second loop as it runs: the keys visited in the order the range
\* happens to take, and the list of each sorted and stored back.
RECURSIVE SortInOrder(_, _)
SortInOrder(m, order) ==
  IF order = <<>> THEN m
  ELSE LET accessRulesMethod == Head(order) IN
       SortInOrder(MapPut(m, accessRulesMethod, SortStrings(m[accessRulesMethod])),
                   Tail(order))

\* ------------------------------------------------------------------------
\* The authorizer
\* ------------------------------------------------------------------------

\* sort.SearchStrings(a, x): the binary search for the smallest index i
\* (0-based) with a[i] >= x, Len(a) when there is none.
RECURSIVE SearchLoop(_, _, _, _)
SearchLoop(a, x, i, j) ==
  IF i < j
  THEN LET h == (i + j) \div 2 IN
       IF StrLess(a[h + 1], x) THEN SearchLoop(a, x, h + 1, j)
       ELSE SearchLoop(a, x, i, h)
  ELSE i

SearchStrings(a, x) == SearchLoop(a, x, 0, Len(a))

\* The indices (0-based) of a that the search reads on its way.
RECURSIVE SearchReads(_, _, _, _)
SearchReads(a, x, i, j) ==
  IF i < j
  THEN LET h == (i + j) \div 2 IN
       {h} \cup (IF StrLess(a[h + 1], x) THEN SearchReads(a, x, h + 1, j)
                ELSE SearchReads(a, x, i, h))
  ELSE {}

\* The list read at the found index without the comparison with its length.
IndexedAtAlways(a, requestAllowanceRuleIndex) == {requestAllowanceRuleIndex}

\* The indices (0-based) of the list that the handler's condition reads: the
\* element at the found index, and only when the index is not the length
\* (the right side of || is not evaluated when the left side holds).
IndexedAt(a, requestAllowanceRuleIndex) ==
  IF requestAllowanceRuleIndex = Len(a) THEN {} ELSE {requestAllowanceRuleIndex}

\* Allowed without the comparison of the found element with the path.
AllowedWithoutComparison(m, method, path) ==
  /\ method \in DOMAIN m
  /\ LET a == m[method]
         requestAllowanceRuleIndex == SearchStrings(a, path)
     IN requestAllowanceRuleIndex # Len(a)

\* Allowed with a method that has no list let through.
AllowedWithoutMethodList(m, method, path) ==
  IF method \notin DOMAIN m THEN TRUE
  ELSE LET a == m[method]
           requestAllowanceRuleIndex == SearchStrings(a, path)
       IN ~(\/ requestAllowanceRuleIndex = Len(a)
            \/ a[requestAllowanceRuleIndex + 1] # path)

\* The handler's decision for a supported method: the method has a list and
\* the binary search lands on the path itself.
Allowed(m, method, path) ==
  /\ method \in DOMAIN m
  /\ LET a == m[method]
         requestAllowanceRuleIndex == SearchStrings(a, path)
     IN ~(\/ requestAllowanceRuleIndex = Len(a)
          \/ a[requestAllowanceRuleIndex + 1] # path)

\* ------------------------------------------------------------------------
\* http.NewRequest(r.Method, "http://unix" + r.URL.Path, r.Body)
\* ------------------------------------------------------------------------

\* The synthetic host every outbound URL starts with.
UnixHostPrefix == <<"h", "t", "t", "p", ":", "/", "/", "u", "n", "i", "x">>

RequestPath(path) == UnixHostPrefix \o path

IsHex(c) == c \in {"1", "4", "A", "a", "b", "e", "C", "D", "E"}

HexVal(c) ==
  CASE c = "1" -> 1 [] c = "4" -> 4 [] c \in {"A", "a"} -> 10
    [] c = "b" -> 11 [] c = "C" -> 12 [] c = "D" -> 13 [] c \in {"E", "e"} -> 14

\* url.unescape in path mode: whether every "%" is followed by two hex digits.
RECURSIVE EscapesValid(_)
EscapesValid(s) ==
  IF s = <<>> THEN TRUE
  ELSE IF Head(s) = "%"
       THEN /\ Len(s) >= 3
            /\ IsHex(s[2])
            /\ IsHex(s[3])
            /\ EscapesValid(SubSeq(s, 4, Len(s)))
       ELSE EscapesValid(Tail(s))

\* url.unescape in path mode: each "%XY" replaced by the byte it names.
RECURSIVE Unescape(_)
Unescape(s) ==
  IF s = <<>> THEN <<>>
  ELSE IF Head(s) = "%"
       THEN <<Chr(16 * HexVal(s[2]) + HexVal(s[3]))>> \o Unescape(SubSeq(s, 4, Len(s)))
       ELSE <<Head(s)>> \o Unescape(Tail(s))

\* url.Parse of an absolute URL: the fragment is cut at the first "#", the
\* scheme at the first ":", the query at the first "?", the authority runs
\* from "//" to the next "/", and the rest is the path, unescaped.
ParseURL(rawURL) ==
  LET hash == IndexByte(rawURL, "#")
      u == IF hash = 0 THEN rawURL ELSE SubSeq(rawURL, 1, hash - 1)
      frag == IF hash = 0 THEN <<>> ELSE SubSeq(rawURL, hash + 1, Len(rawURL))
      colon == IndexByte(u, ":")
      afterScheme == SubSeq(u, colon + 1, Len(u))
      qm == IndexByte(afterScheme, "?")
      rest == IF qm = 0 THEN afterScheme ELSE SubSeq(afterScheme, 1, qm - 1)
      rawQuery == IF qm = 0 THEN <<>> ELSE SubSeq(afterScheme, qm + 1, Len(afterScheme))
      afterSlashes == SubSeq(rest, 3, Len(rest))
      slash == IndexByte(afterSlashes, "/")
      host == IF slash = 0 THEN afterSlashes ELSE SubSeq(afterSlashes, 1, slash - 1)
      rawPath == IF slash = 0 THEN <<>> ELSE SubSeq(afterSlashes, slash, Len(afterSlashes))
      ok == EscapesValid(rawPath) /\ EscapesValid(frag)
  IN [err |-> ~ok,
      Scheme |-> SubSeq(u, 1, colon - 1),
      Host |-> host,
      Path |-> IF ok THEN Unescape(rawPath) ELSE <<>>,
      RawQuery |-> rawQuery]

NoRequest == [err |-> TRUE, Method |-> <<>>, Host |-> <<>>, Path |-> <<>>,
              RawQuery |-> <<>>, Body |-> <<>>]

\* http.NewRequest: the outbound request, or an error when the URL does not
\* parse.  The method is one of the handler's switch cases, so it is valid.
NewRequest(method, rawURL, body) ==
  LET url == ParseURL(rawURL) IN
  IF url.err THEN NoRequest
  ELSE [err |-> FALSE, Method |-> method, Host |-> url.Host, Path |-> url.Path,
        RawQuery |-> url.RawQuery, Body |-> body]

\* ------------------------------------------------------------------------
\* Inputs
\* ------------------------------------------------------------------------

\* The longest access rules list.
MaxRules == 2

\* The lines readFileLines may return (it drops the empty ones): well-formed
\* rules, a rule naming an unsupported method, rules whose path holds "?" or
\* "%", and lines that do not split into two fields.
RuleLines ==
  { MethodGet \o <<"~", "/", "a">>,
    MethodGet \o <<"~", "/", "a", "?", "b">>,
    MethodGet \o <<"~", "/", "%">>,
    MethodGet \o <<"~", "/", "%", "4", "1">>,
    MethodPost \o <<"~", "/", "a">>,
    MethodOptions \o <<"~", "/", "a">>,
    <<"~">>,
    MethodGet,
    MethodGet \o <<"~", "/", "a", "~", "e", "x", "t", "r", "a">> }

RECURSIVE SeqsUpTo(_, _)
SeqsUpTo(S, n) ==
  IF n = 0 THEN {<<>>}
  ELSE LET shorter == SeqsUpTo(S, n - 1) IN
       shorter \cup {Append(q, x) : q \in {t \in shorter : Len(t) = n - 1}, x \in S}

RuleLists == SeqsUpTo(RuleLines, MaxRules)

\* Inbound requests: r.Method, r.URL.Path (already unescaped by the server)
\* and r.Body.
ReqMethods == {MethodGet, MethodPost, MethodOptions}

ReqPaths ==
  { <<"/", "a">>, <<"/", "a", "/">>, <<"/", "b">>, <<"/", "a", "?", "b">>,
    <<"/", "%">>, <<"/", "%", "4", "1">> }

ReqBodies == {<<>>, <<"x">>}

Requests == [Method : ReqMethods, Path : ReqPaths, Body : ReqBodies]

NoReq == [Method |-> <<>>, Path |-> <<>>, Body |-> <<>>]

\* The bodies the target may answer with.
RespBodies == {<<>>, <<"o", "k">>}

\* The redirects of one call of Do that are followed here (Do itself gives
\* up after ten).
MaxRedirects == 1

\* The paths the target may redirect to.
RedirectPaths == { <<"/", "b">> }

\* What the target does with a request it has accepted: answer, stay silent,
\* drop the connection, or answer with a redirect.
BackendModes == {"silent", "reset", "responding", "redirecting"}

\* The connections the server handles.
Reqs == {"r1"}

Terminal == {"BadMethod", "Denied", "InternalError", "TimedOut", "Relayed"}

\* ------------------------------------------------------------------------
\* State
\* ------------------------------------------------------------------------

VARIABLES
  accessRulesList,  \* the lines of the access rules file
  accessRulesMap,   \* the map captured by the handler
  phase,            \* "init", "built", "serving" or "exited"
  pc,               \* where each connection's handler stands
  req,              \* the inbound request
  elapsed,          \* seconds since requestContext was created
  httpRequest,      \* the outbound request
  errReqPerform,    \* the error Do returned: "none", "dial", "reset", "deadline", "redirects"
  backend,          \* what the target does with the request: "none" or one of BackendModes
  response,         \* the body of the target's response
  w,                \* what was written to the caller, chunk by chunk
  bodies,           \* the calls of io.WriteString and io.Copy on w
  sent              \* the requests the target socket received for this one

vars == <<accessRulesList, accessRulesMap, phase, pc, req, elapsed, httpRequest,
          errReqPerform, backend, response, w, bodies, sent>>

handlerVars == <<pc, req, elapsed, httpRequest, errReqPerform, backend, response,
                 w, bodies, sent>>

startupVars == <<accessRulesList, accessRulesMap, phase>>

IdleHandlers ==
  /\ pc = [r \in Reqs |-> "idle"]
  /\ req = [r \in Reqs |-> NoReq]
  /\ elapsed = [r \in Reqs |-> 0]
  /\ httpRequest = [r \in Reqs |-> NoRequest]
  /\ errReqPerform = [r \in Reqs |-> "none"]
  /\ backend = [r \in Reqs |-> "none"]
  /\ response = [r \in Reqs |-> <<>>]
  /\ w = [r \in Reqs |-> <<>>]
  /\ bodies = [r \in Reqs |-> 0]
  /\ sent = [r \in Reqs |-> <<>>]

\* The process has its arguments and has read the access rules file.
Init ==
  /\ accessRulesList \in RuleLists
  /\ accessRulesMap = EmptyMap
  /\ phase = "init"
  /\ IdleHandlers

\* ------------------------------------------------------------------------
\* main
\* ------------------------------------------------------------------------

\* obtainRequestHandler(targetSocketPath, determineAccessRules(...)).
BuildHandler ==
  /\ phase = "init"
  /\ LET collected == CollectRules(EmptyMap, accessRulesList) IN
     \E order \in KeyOrders(DOMAIN collected) :
       accessRulesMap' = SortInOrder(collected, order)
  /\ phase' = "built"
  /\ UNCHANGED <<accessRulesList, handlerVars>>

\* createUnixSocketListener binds the exposed socket and Serve starts.
Listen ==
  /\ phase = "built"
  /\ phase' = "serving"
  /\ UNCHANGED <<accessRulesList, accessRulesMap, handlerVars>>

\* net.Listen fails and createUnixSocketListener panics.
ListenFail ==
  /\ phase = "built"
  /\ phase' = "exited"
  /\ UNCHANGED <<accessRulesList, accessRulesMap, handlerVars>>

\* ------------------------------------------------------------------------
\* The handler
\* ------------------------------------------------------------------------

\* io.WriteString(w, s) with the return after the unauthorized body missing.
WriteWithoutReturn(r, s, state) ==
  /\ w' = [w EXCEPT ![r] = Append(@, s)]
  /\ bodies' = [bodies EXCEPT ![r] = @ + 1]
  /\ pc' = [pc EXCEPT ![r] = IF state = "Denied" THEN "ConstructingUpstream" ELSE state]

\* requestContext without a deadline.
ExpiredNever(r) == FALSE

\* requestContext is done: its 5 seconds have passed.
Expired(r) == elapsed[r] >= TimeoutSeconds

\* io.WriteString(w, s) followed by return.
WriteAndReturn(r, s, state) ==
  /\ w' = [w EXCEPT ![r] = Append(@, s)]
  /\ bodies' = [bodies EXCEPT ![r] = @ + 1]
  /\ pc' = [pc EXCEPT ![r] = state]

\* The server hands a request to the handler, which creates requestContext.
Accept(r, q) ==
  /\ phase = "serving"
  /\ pc[r] = "idle"
  /\ pc' = [pc EXCEPT ![r] = "Received"]
  /\ req' = [req EXCEPT ![r] = q]
  /\ UNCHANGED <<startupVars, elapsed, httpRequest, errReqPerform, backend,
                 response, w, bodies, sent>>

\* One deadline shared by every handler.
TickShared(r) ==
  /\ pc[r] \in {"Sending", "AwaitingResponse", "Copying"}
  /\ elapsed[r] < TimeoutSeconds
  /\ elapsed' = [x \in DOMAIN elapsed |->
                   IF elapsed[x] < TimeoutSeconds THEN elapsed[x] + 1 ELSE elapsed[x]]
  /\ UNCHANGED <<startupVars, pc, req, httpRequest, errReqPerform, backend,
                 response, w, bodies, sent>>

\* A second passes while the handler waits on the target socket (the steps
\* before Do do not block).
Tick(r) ==
  /\ pc[r] \in {"Sending", "AwaitingResponse", "Copying"}
  /\ elapsed[r] < TimeoutSeconds
  /\ elapsed' = [elapsed EXCEPT ![r] = @ + 1]
  /\ UNCHANGED <<startupVars, pc, req, httpRequest, errReqPerform, backend,
                 response, w, bodies, sent>>

\* switch r.Method: one of the five cases.
MethodSupported(r) ==
  /\ pc[r] = "Received"
  /\ IsSupported(req[r].Method)
  /\ pc' = [pc EXCEPT ![r] = "MethodChecked"]
  /\ UNCHANGED <<startupVars, req, elapsed, httpRequest, errReqPerform, backend,
                 response, w, bodies, sent>>

\* switch r.Method: default.
MethodUnsupported(r) ==
  /\ pc[r] = "Received"
  /\ ~IsSupported(req[r].Method)
  /\ WriteAndReturn(r, badRequestString, "BadMethod")
  /\ UNCHANGED <<startupVars, req, elapsed, httpRequest, errReqPerform, backend,
                 response, sent>>

\* Deny giving a method that has no list an empty one.
DenyCreatingList(r) ==
  /\ pc[r] = "MethodChecked"
  /\ ~Allowed(accessRulesMap, req[r].Method, req[r].Path)
  /\ accessRulesMap' = IF req[r].Method \in DOMAIN accessRulesMap THEN accessRulesMap
                       ELSE MapPut(accessRulesMap, req[r].Method, <<>>)
  /\ WriteAndReturn(r, unauthorizedMsgString, "Denied")
  /\ UNCHANGED <<accessRulesList, phase, req, elapsed, httpRequest, errReqPerform,
                 backend, response, sent>>

\* The method has no list, or the search does not land on the path.
Deny(r) ==
  /\ pc[r] = "MethodChecked"
  /\ ~Allowed(accessRulesMap, req[r].Method, req[r].Path)
  /\ WriteAndReturn(r, unauthorizedMsgString, "Denied")
  /\ UNCHANGED <<startupVars, req, elapsed, httpRequest, errReqPerform, backend,
                 response, sent>>

Allow(r) ==
  /\ pc[r] = "MethodChecked"
  /\ Allowed(accessRulesMap, req[r].Method, req[r].Path)
  /\ pc' = [pc EXCEPT ![r] = "ConstructingUpstream"]
  /\ UNCHANGED <<startupVars, req, elapsed, httpRequest, errReqPerform, backend,
                 response, w, bodies, sent>>

\* The outbound request built from the inbound URL with its query string.
OutboundWithQuery(q) ==
  NewRequest(q.Method,
             RequestPath(IF q.RawQuery = <<>> THEN q.Path
                         ELSE q.Path \o <<"?">> \o q.RawQuery),
             q.Body)

\* The outbound request the handler builds from the inbound one.
Outbound(q) == NewRequest(q.Method, RequestPath(q.Path), q.Body)

\* http.NewRequest succeeds; the request gets requestContext.
Construct(r) ==
  /\ pc[r] = "ConstructingUpstream"
  /\ ~Outbound(req[r]).err
  /\ httpRequest' = [httpRequest EXCEPT ![r] = Outbound(req[r])]
  /\ pc' = [pc EXCEPT ![r] = "Sending"]
  /\ UNCHANGED <<startupVars, req, elapsed, errReqPerform, backend, response, w,
                 bodies, sent>>

\* http.NewRequest fails.
ConstructFail(r) ==
  /\ pc[r] = "ConstructingUpstream"
  /\ Outbound(req[r]).err
  /\ WriteAndReturn(r, internalErrorString, "InternalError")
  /\ UNCHANGED <<startupVars, req, elapsed, httpRequest, errReqPerform, backend,
                 response, sent>>

\* The failed dial ending the process instead of the request.
DoDialFailExits(r) ==
  /\ pc[r] = "Sending"
  /\ ~Expired(r)
  /\ errReqPerform' = [errReqPerform EXCEPT ![r] = "dial"]
  /\ phase' = "exited"
  /\ pc' = [pc EXCEPT ![r] = "TimedOut"]
  /\ UNCHANGED <<accessRulesList, accessRulesMap, req, elapsed, httpRequest,
                 backend, response, w, bodies, sent>>

\* Do: the target socket cannot be dialled; Do returns the error.
DoDialFail(r) ==
  /\ pc[r] = "Sending"
  /\ ~Expired(r)
  /\ errReqPerform' = [errReqPerform EXCEPT ![r] = "dial"]
  /\ WriteAndReturn(r, requestTimeoutString, "TimedOut")
  /\ UNCHANGED <<startupVars, req, elapsed, httpRequest, backend, response, sent>>

\* Do: the target accepts the connection and the request is written to it.
\* The target will answer, stay silent, or drop the connection.
DoSend(r, mode) ==
  /\ pc[r] = "Sending"
  /\ ~Expired(r)
  /\ sent' = [sent EXCEPT ![r] = Append(@, httpRequest[r])]
  /\ backend' = [backend EXCEPT ![r] = mode]
  /\ pc' = [pc EXCEPT ![r] = "AwaitingResponse"]
  /\ UNCHANGED <<startupVars, req, elapsed, httpRequest, errReqPerform, response,
                 w, bodies>>

\* The broken connection's error text written to the caller.
DoConnResetEchoesError(r) ==
  /\ pc[r] = "AwaitingResponse"
  /\ backend[r] = "reset"
  /\ errReqPerform' = [errReqPerform EXCEPT ![r] = "reset"]
  /\ WriteAndReturn(r, "Get \"http://unix/a\": EOF", "TimedOut")
  /\ UNCHANGED <<startupVars, req, elapsed, httpRequest, backend, response, sent>>

\* Do: the connection breaks before the response headers; Do returns the error.
DoConnReset(r) ==
  /\ pc[r] = "AwaitingResponse"
  /\ backend[r] = "reset"
  /\ errReqPerform' = [errReqPerform EXCEPT ![r] = "reset"]
  /\ WriteAndReturn(r, requestTimeoutString, "TimedOut")
  /\ UNCHANGED <<startupVars, req, elapsed, httpRequest, backend, response, sent>>

\* Do: requestContext's deadline passes before the response headers; the
\* call is abandoned and Do returns the context's error.
DoDeadline(r) ==
  /\ pc[r] \in {"Sending", "AwaitingResponse"}
  /\ Expired(r)
  /\ errReqPerform' = [errReqPerform EXCEPT ![r] = "deadline"]
  /\ WriteAndReturn(r, requestTimeoutString, "TimedOut")
  /\ UNCHANGED <<startupVars, req, elapsed, httpRequest, backend, response, sent>>

\* The request Do issues after a 302 response: a GET of the Location, on the
\* synthetic host, without a body.
RedirectRequest(location) ==
  [err |-> FALSE, Method |-> MethodGet, Host |-> <<"u", "n", "i", "x">>,
   Path |-> location, RawQuery |-> <<>>, Body |-> <<>>]

\* Do: the target answers 302 with a Location.  The client has no
\* CheckRedirect, so Do follows the redirect: it dials the target socket
\* again and sends the new request, under the same requestContext.
DoRedirect(r, location, mode) ==
  /\ pc[r] = "AwaitingResponse"
  /\ backend[r] = "redirecting"
  /\ ~Expired(r)
  /\ Len(sent[r]) <= MaxRedirects
  /\ sent' = [sent EXCEPT ![r] = Append(@, RedirectRequest(location))]
  /\ backend' = [backend EXCEPT ![r] = mode]
  /\ UNCHANGED <<startupVars, pc, req, elapsed, httpRequest, errReqPerform,
                 response, w, bodies>>

\* Do: the target redirects once more than Do follows; Do returns an error.
DoRedirectLimit(r) ==
  /\ pc[r] = "AwaitingResponse"
  /\ backend[r] = "redirecting"
  /\ Len(sent[r]) > MaxRedirects
  /\ errReqPerform' = [errReqPerform EXCEPT ![r] = "redirects"]
  /\ WriteAndReturn(r, requestTimeoutString, "TimedOut")
  /\ UNCHANGED <<startupVars, req, elapsed, httpRequest, backend, response, sent>>

\* Do returns the response: its headers have arrived.  io.Copy starts.
DoResponse(r, body) ==
  /\ pc[r] = "AwaitingResponse"
  /\ backend[r] = "responding"
  /\ ~Expired(r)
  /\ response' = [response EXCEPT ![r] = body]
  /\ bodies' = [bodies EXCEPT ![r] = @ + 1]
  /\ pc' = [pc EXCEPT ![r] = "Copying"]
  /\ UNCHANGED <<startupVars, req, elapsed, httpRequest, errReqPerform, backend,
                 w, sent>>

\* io.Copy: the next byte of response.Body goes to the caller.
CopyChunk(r) ==
  /\ pc[r] = "Copying"
  /\ ~Expired(r)
  /\ Len(w[r]) < Len(response[r])
  /\ w' = [w EXCEPT ![r] = Append(@, response[r][Len(@) + 1])]
  /\ UNCHANGED <<startupVars, pc, req, elapsed, httpRequest, errReqPerform,
                 backend, response, bodies, sent>>

\* io.Copy: response.Body is at its end; the handler returns.
CopyEOF(r) ==
  /\ pc[r] = "Copying"
  /\ Len(w[r]) = Len(response[r])
  /\ pc' = [pc EXCEPT ![r] = "Relayed"]
  /\ UNCHANGED <<startupVars, req, elapsed, httpRequest, errReqPerform, backend,
                 response, w, bodies, sent>>

\* io.Copy: requestContext's deadline passes while the body is being read;
\* the read fails, io.Copy returns (its error is dropped) and the handler
\* returns.
CopyDeadline(r) ==
  /\ pc[r] = "Copying"
  /\ Expired(r)
  /\ Len(w[r]) < Len(response[r])
  /\ pc' = [pc EXCEPT ![r] = "Relayed"]
  /\ UNCHANGED <<startupVars, req, elapsed, httpRequest, errReqPerform, backend,
                 response, w, bodies, sent>>

\* The handler has returned; the connection takes its next request.
Return(r) ==
  /\ pc[r] \in Terminal
  /\ pc' = [pc EXCEPT ![r] = "idle"]
  /\ req' = [req EXCEPT ![r] = NoReq]
  /\ elapsed' = [elapsed EXCEPT ![r] = 0]
  /\ httpRequest' = [httpRequest EXCEPT ![r] = NoRequest]
  /\ errReqPerform' = [errReqPerform EXCEPT ![r] = "none"]
  /\ backend' = [backend EXCEPT ![r] = "none"]
  /\ response' = [response EXCEPT ![r] = <<>>]
  /\ w' = [w EXCEPT ![r] = <<>>]
  /\ bodies' = [bodies EXCEPT ![r] = 0]
  /\ sent' = [sent EXCEPT ![r] = <<>>]
  /\ UNCHANGED startupVars

Next ==
  \/ BuildHandler
  \/ Listen
  \/ ListenFail
  \/ \E r \in Reqs, q \in Requests : Accept(r, q)
  \/ \E r \in Reqs : Tick(r)
  \/ \E r \in Reqs : MethodSupported(r)
  \/ \E r \in Reqs : MethodUnsupported(r)
  \/ \E r \in Reqs : Deny(r)
  \/ \E r \in Reqs : Allow(r)
  \/ \E r \in Reqs : Construct(r)
  \/ \E r \in Reqs : ConstructFail(r)
  \/ \E r \in Reqs : DoDialFail(r)
  \/ \E r \in Reqs, mode \in BackendModes : DoSend(r, mode)
  \/ \E r \in Reqs, location \in RedirectPaths, mode \in BackendModes :
       DoRedirect(r, location, mode)
  \/ \E r \in Reqs : DoRedirectLimit(r)
  \/ \E r \in Reqs : DoConnReset(r)
  \/ \E r \in Reqs : DoDeadline(r)
  \/ \E r \in Reqs, body \in RespBodies : DoResponse(r, body)
  \/ \E r \in Reqs : CopyChunk(r)
  \/ \E r \in Reqs : CopyEOF(r)
  \/ \E r \in Reqs : CopyDeadline(r)
  \/ \E r \in Reqs : Return(r)

Spec == Init /\ [][Next]_vars

\* The deadline does pass, and a call whose deadline has passed does return:
\* the runtime's timer cancels requestContext, and Do watches it.
LiveSpec ==
  /\ Init
  /\ [][Next]_vars
  /\ \A r \in Reqs : WF_vars(Tick(r)) /\ WF_vars(DoDeadline(r))

\* ------------------------------------------------------------------------
\* The compilation of longer rule lists
\* ------------------------------------------------------------------------

\* The longest access rules list compiled on its own.
MaxCompileRules == 3

CompileInit ==
  /\ accessRulesList \in SeqsUpTo(RuleLines, MaxCompileRules)
  /\ accessRulesMap = EmptyMap
  /\ phase = "init"
  /\ IdleHandlers

CompileNext == BuildHandler

CompileSpec == CompileInit /\ [][CompileNext]_vars

\* ------------------------------------------------------------------------
\* Two connections served at once
\* ------------------------------------------------------------------------

\* The server runs the handler in one goroutine per connection.
Conns == {"r1", "r2"}

\* The access rules file of the two-connection runs.
ConcRuleLists ==
  { << MethodGet \o <<"~", "/", "a">>, MethodGet \o <<"~", "/", "%">> >> }

\* Inbound requests with their query string (r.URL.RawQuery) and a header
\* (r.Header), which the handler never reads.
ConcRequests ==
  [Method : {MethodGet}, Path : {<<"/", "a">>}, Body : {<<>>},
   RawQuery : {<<>>, <<"q">>}, Header : {<<>>}]
  \cup
  [Method : {MethodGet}, Path : {<<"/", "a">>}, Body : {<<>>},
   RawQuery : {<<>>}, Header : {<<"h">>}]
  \cup
  [Method : {MethodGet}, Path : {<<"/", "b">>, <<"/", "%">>}, Body : {<<>>},
   RawQuery : {<<>>}, Header : {<<>>}]
  \cup
  [Method : {MethodOptions, MethodPost}, Path : {<<"/", "a">>}, Body : {<<>>},
   RawQuery : {<<>>}, Header : {<<>>}]

ConcInit ==
  /\ accessRulesList \in ConcRuleLists
  /\ accessRulesMap = EmptyMap
  /\ phase = "init"
  /\ pc = [r \in Conns |-> "idle"]
  /\ req = [r \in Conns |-> NoReq]
  /\ elapsed = [r \in Conns |-> 0]
  /\ httpRequest = [r \in Conns |-> NoRequest]
  /\ errReqPerform = [r \in Conns |-> "none"]
  /\ backend = [r \in Conns |-> "none"]
  /\ response = [r \in Conns |-> <<>>]
  /\ w = [r \in Conns |-> <<>>]
  /\ bodies = [r \in Conns |-> 0]
  /\ sent = [r \in Conns |-> <<>>]

ConcNext ==
  \/ BuildHandler
  \/ Listen
  \/ ListenFail
  \/ \E r \in Conns, q \in ConcRequests : Accept(r, q)
  \/ \E r \in Conns : Tick(r)
  \/ \E r \in Conns : MethodSupported(r)
  \/ \E r \in Conns : MethodUnsupported(r)
  \/ \E r \in Conns : Deny(r)
  \/ \E r \in Conns : Allow(r)
  \/ \E r \in Conns : Construct(r)
  \/ \E r \in Conns : ConstructFail(r)
  \/ \E r \in Conns : DoDialFail(r)
  \/ \E r \in Conns, mode \in BackendModes : DoSend(r, mode)
  \/ \E r \in Conns, location \in RedirectPaths, mode \in BackendModes :
       DoRedirect(r, location, mode)
  \/ \E r \in Conns : DoRedirectLimit(r)
  \/ \E r \in Conns : DoConnReset(r)
  \/ \E r \in Conns : DoDeadline(r)
  \/ \E r \in Conns, body \in RespBodies : DoResponse(r, body)
  \/ \E r \in Conns : CopyChunk(r)
  \/ \E r \in Conns : CopyEOF(r)
  \/ \E r \in Conns : CopyDeadline(r)
  \/ \E r \in Conns : Return(r)

ConcSpec == ConcInit /\ [][ConcNext]_vars

\* ------------------------------------------------------------------------
\* The program that routes by path (the first main of veil.go)
\* ------------------------------------------------------------------------

\* unauthorizedMsgString as the first program declares it.
routedUnauthorizedMsgString ==
  "{\"type\":\"error\",\"status-code\":401,\"status\":\"Unauthorized\",\"result\":{\"message\":\"access denied\"}}"
unknownMsgString ==
  "{\"type\":\"error\",\"status-code\":404,\"status\":\"Not Found\",\"result\":{\"message\":\"not found\"}}"

\* One iteration of the first loop of the first program's
\* determineAccessRules: the method is appended to the list of the path.
AddRuleForPath(m, rule) ==
  LET splitRule == Split(rule, accessRuleStringDelimiter) IN
  IF Len(splitRule) # 2 THEN m
  ELSE LET ruleHTTPMethod == splitRule[1]
           ruleResourcePath == splitRule[2]
           accessRulesForPath ==
             IF ruleResourcePath \in DOMAIN m THEN m[ruleResourcePath] ELSE <<>>
       IN MapPut(m, ruleResourcePath, Append(accessRulesForPath, ruleHTTPMethod))

RECURSIVE CollectRulesForPath(_, _)
CollectRulesForPath(m, lines) ==
  IF lines = <<>> THEN m
  ELSE CollectRulesForPath(AddRuleForPath(m, Head(lines)), Tail(lines))

\* funk.UniqString: the first occurrence of every element, in order.
RECURSIVE UniqFrom(_, _)
UniqFrom(acc, s) ==
  IF s = <<>> THEN acc
  ELSE IF \E i \in 1..Len(acc) : acc[i] = Head(s) THEN UniqFrom(acc, Tail(s))
  ELSE UniqFrom(Append(acc, Head(s)), Tail(s))

UniqString(s) == UniqFrom(<<>>, s)

\* The first program's determineAccessRules: from each path to its methods,
\* sorted and without repetitions.
determineAccessRulesForPath(lines) ==
  LET collected == CollectRulesForPath(EmptyMap, lines) IN
  [accessRulesPath \in DOMAIN collected |->
     UniqString(SortStrings(collected[accessRulesPath]))]

\* The route registered for a path matches the request's path: the template
\* holds no variable, so the match is equality with r.URL.Path.
RoutePathMatches(accessRules, path) == path \in DOMAIN accessRules

\* The route's Methods matcher accepts the request's method.
RouteMethodMatches(accessRules, path, method) ==
  \E i \in 1..Len(accessRules[path]) : accessRules[path][i] = method

RouterTerminal == Terminal \cup {"NotFound"}

\* main: the rules are compiled and one route per path is registered.
BuildRouter ==
  /\ phase = "init"
  /\ accessRulesMap' = determineAccessRulesForPath(accessRulesList)
  /\ phase' = "built"
  /\ UNCHANGED <<accessRulesList, handlerVars>>

\* A path with a route answered as a path without one.
RouteMethodNotAllowedAsNotFound(r) ==
  /\ pc[r] = "Received"
  /\ RoutePathMatches(accessRulesMap, req[r].Path)
  /\ ~RouteMethodMatches(accessRulesMap, req[r].Path, req[r].Method)
  /\ WriteAndReturn(r, unknownMsgString, "NotFound")
  /\ UNCHANGED <<startupVars, req, elapsed, httpRequest, errReqPerform, backend,
                 response, sent>>

\* No route matches the path: NotFoundHandler, unknownRequestHandler.
RouteNotFound(r) ==
  /\ pc[r] = "Received"
  /\ ~RoutePathMatches(accessRulesMap, req[r].Path)
  /\ WriteAndReturn(r, unknownMsgString, "NotFound")
  /\ UNCHANGED <<startupVars, req, elapsed, httpRequest, errReqPerform, backend,
                 response, sent>>

\* The route of the path does not take the method: MethodNotAllowedHandler,
\* forbiddenRequestHandler.
RouteMethodNotAllowed(r) ==
  /\ pc[r] = "Received"
  /\ RoutePathMatches(accessRulesMap, req[r].Path)
  /\ ~RouteMethodMatches(accessRulesMap, req[r].Path, req[r].Method)
  /\ WriteAndReturn(r, routedUnauthorizedMsgString, "Denied")
  /\ UNCHANGED <<startupVars, req, elapsed, httpRequest, errReqPerform, backend,
                 response, sent>>

\* The route matches: the router calls socketRequestHandler.
RouteMatch(r) ==
  /\ pc[r] = "Received"
  /\ RoutePathMatches(accessRulesMap, req[r].Path)
  /\ RouteMethodMatches(accessRulesMap, req[r].Path, req[r].Method)
  /\ pc' = [pc EXCEPT ![r] = "Routed"]
  /\ UNCHANGED <<startupVars, req, elapsed, httpRequest, errReqPerform, backend,
                 response, w, bodies, sent>>

\* socketRequestHandler, switch r.Method: one of the five cases; the request
\* goes to http.NewRequest without any further test.
SocketMethodSupported(r) ==
  /\ pc[r] = "Routed"
  /\ IsSupported(req[r].Method)
  /\ pc' = [pc EXCEPT ![r] = "ConstructingUpstream"]
  /\ UNCHANGED <<startupVars, req, elapsed, httpRequest, errReqPerform, backend,
                 response, w, bodies, sent>>

\* socketRequestHandler, switch r.Method: default.
SocketMethodUnsupported(r) ==
  /\ pc[r] = "Routed"
  /\ ~IsSupported(req[r].Method)
  /\ WriteAndReturn(r, badRequestString, "BadMethod")
  /\ UNCHANGED <<startupVars, req, elapsed, httpRequest, errReqPerform, backend,
                 response, sent>>

\* The handler the router chose has returned.
RouterReturn(r) ==
  /\ pc[r] \in RouterTerminal
  /\ pc' = [pc EXCEPT ![r] = "idle"]
  /\ req' = [req EXCEPT ![r] = NoReq]
  /\ elapsed' = [elapsed EXCEPT ![r] = 0]
  /\ httpRequest' = [httpRequest EXCEPT ![r] = NoRequest]
  /\ errReqPerform' = [errReqPerform EXCEPT ![r] = "none"]
  /\ backend' = [backend EXCEPT ![r] = "none"]
  /\ response' = [response EXCEPT ![r] = <<>>]
  /\ w' = [w EXCEPT ![r] = <<>>]
  /\ bodies' = [bodies EXCEPT ![r] = 0]
  /\ sent' = [sent EXCEPT ![r] = <<>>]
  /\ UNCHANGED startupVars

\* The relay of socketRequestHandler is the code of the second program's
\* handler after its authorization.
RouterNext ==
  \/ BuildRouter
  \/ Listen
  \/ ListenFail
  \/ \E r \in Reqs, q \in Requests : Accept(r, q)
  \/ \E r \in Reqs : Tick(r)
  \/ \E r \in Reqs : RouteNotFound(r)
  \/ \E r \in Reqs : RouteMethodNotAllowed(r)
  \/ \E r \in Reqs : RouteMatch(r)
  \/ \E r \in Reqs : SocketMethodSupported(r)
  \/ \E r \in Reqs : SocketMethodUnsupported(r)
  \/ \E r \in Reqs : Construct(r)
  \/ \E r \in Reqs : ConstructFail(r)
  \/ \E r \in Reqs : DoDialFail(r)
  \/ \E r \in Reqs, mode \in BackendModes : DoSend(r, mode)
  \/ \E r \in Reqs, location \in RedirectPaths, mode \in BackendModes :
       DoRedirect(r, location, mode)
  \/ \E r \in Reqs : DoRedirectLimit(r)
  \/ \E r \in Reqs : DoConnReset(r)
  \/ \E r \in Reqs : DoDeadline(r)
  \/ \E r \in Reqs, body \in RespBodies : DoResponse(r, body)
  \/ \E r \in Reqs : CopyChunk(r)
  \/ \E r \in Reqs : CopyEOF(r)
  \/ \E r \in Reqs : CopyDeadline(r)
  \/ \E r \in Reqs : RouterReturn(r)

RouterSpec == Init /\ [][RouterNext]_vars

\* ------------------------------------------------------------------------
\* Properties
\* ------------------------------------------------------------------------

\* The (method, path) pair is an entry of the table.
InTable(m, method, path) ==
  /\ method \in DOMAIN m
  /\ \E i \in 1..Len(m[method]) : m[method][i] = path

Handling(r) == pc[r] # "idle"

\* Nothing has been built for, or sent to, the target socket.
TargetUntouched(r) ==
  /\ httpRequest[r] = NoRequest
  /\ sent[r] = <<>>
  /\ backend[r] = "none"
  /\ errReqPerform[r] = "none"

\* C1: a request whose (method, path) pair is not in the compiled table is
\* refused and the target socket is never contacted for it: its handling
\* never gets past the authorization, no outbound request is built or sent,
\* and it ends with the unauthorized body (a supported method) or with the
\* bad request body (an unsupported one).
C1_AbsentPairNeverContacted ==
  \A r \in Reqs :
    (Handling(r) /\ ~InTable(accessRulesMap, req[r].Method, req[r].Path)) =>
      /\ pc[r] \in {"Received", "MethodChecked", "Denied", "BadMethod"}
      /\ TargetUntouched(r)
      /\ pc[r] = "Denied" => w[r] = <<unauthorizedMsgString>>
      /\ pc[r] = "BadMethod" => w[r] = <<badRequestString>>
      /\ pc[r] = "Denied" <=> (pc[r] \in Terminal /\ req[r].Method \in SupportedMethods)

\* A request for a path that is not listed under a method that has a list
\* has been denied.
C1_Witness ==
  \E r \in Reqs :
    /\ pc[r] = "Denied"
    /\ req[r].Method \in DOMAIN accessRulesMap
    /\ ~InTable(accessRulesMap, req[r].Method, req[r].Path)

\* C2: a request whose (method, path) pair is in the compiled table (the
\* method being one an access rule may name) is passed on with the same
\* method, path and body: when its handling ends, an outbound request has
\* been built and handed to Do, and its method, path and body are the
\* inbound ones.
C2_ForwardedIdentical ==
  \A r \in Reqs :
    (/\ pc[r] \in Terminal
     /\ req[r].Method \in SupportedMethods
     /\ InTable(accessRulesMap, req[r].Method, req[r].Path)) =>
      /\ ~httpRequest[r].err
      /\ httpRequest[r].Method = req[r].Method
      /\ httpRequest[r].Path = req[r].Path
      /\ httpRequest[r].RawQuery = <<>>
      /\ httpRequest[r].Body = req[r].Body

\* C3: a request whose method is outside {GET, POST, DELETE, PATCH, PUT}
\* ends with the bad request body and nothing else, and is never relayed,
\* whatever the rules are.
C3_UnsupportedMethodIsBadMethod ==
  \A r \in Reqs :
    (Handling(r) /\ req[r].Method \notin SupportedMethods) =>
      /\ pc[r] \in {"Received", "BadMethod"}
      /\ TargetUntouched(r)
      /\ pc[r] = "BadMethod" => w[r] = <<badRequestString>>
      /\ pc[r] = "Received" => w[r] = <<>>

\* An OPTIONS request ended as a bad method although a rule names OPTIONS
\* and its path.
C3_Witness ==
  \E r \in Reqs :
    /\ pc[r] = "BadMethod"
    /\ req[r].Method = MethodOptions
    /\ InTable(accessRulesMap, req[r].Method, req[r].Path)

\* C4: once the table is compiled, every method's path list is strictly
\* increasing, so it holds no path twice (a method being a non-empty key).
C4_ListsStrictlySorted ==
  (phase # "init") =>
    \A k \in DOMAIN accessRulesMap \ {<<>>} :
      \A i, j \in 1..Len(accessRulesMap[k]) :
        i < j => StrLess(accessRulesMap[k][i], accessRulesMap[k][j])

\* The three lines the claim calls malformed.
MalformedLines ==
  { <<"~">>, MethodGet, MethodGet \o <<"~", "/", "a", "~", "e", "x", "t", "r", "a">> }

Without(lines, dropped) == SelectSeq(lines, LAMBDA l : l \notin dropped)

\* C5 as stated: the table compiled from a list is the table compiled from
\* the list without the lines "~", "GET" and "GET~/a~extra".
C5_MalformedLinesContributeNothing ==
  (phase # "init") =>
    accessRulesMap = determineAccessRules(Without(accessRulesList, MalformedLines))

\* C5, amended: the lines "GET" and "GET~/a~extra" contribute nothing, and
\* the line "~" contributes only the empty path under the empty method: the
\* table compiled from a list is the table compiled from the list without
\* the three lines, plus, when the list holds "~", the key "" with one empty
\* path per "~" line.
C5_OnlyEmptyEntryFromTilde ==
  (phase # "init") =>
    LET clean == determineAccessRules(Without(accessRulesList, MalformedLines))
        tildes == Len(SelectSeq(accessRulesList, LAMBDA l : l = <<"~">>))
    IN /\ DOMAIN accessRulesMap = DOMAIN clean \cup (IF tildes > 0 THEN {<<>>} ELSE {})
       /\ \A k \in DOMAIN clean : accessRulesMap[k] = clean[k]
       /\ tildes > 0 => accessRulesMap[<<>>] = [i \in 1..tildes |-> <<>>]
       /\ <<>> \notin DOMAIN clean

\* A list with "GET~/a~extra" and a well-formed rule has been compiled, and
\* the table holds the rule only.
C5_Witness ==
  /\ phase # "init"
  /\ \E i \in 1..Len(accessRulesList) :
       accessRulesList[i] = MethodGet \o <<"~", "/", "a", "~", "e", "x", "t", "r", "a">>
  /\ \E i \in 1..Len(accessRulesList) :
       accessRulesList[i] = MethodPost \o <<"~", "/", "a">>
  /\ accessRulesMap = [k \in {MethodPost} |-> << <<"/", "a">> >>]

\* C6: the empty rule list compiles to the empty table, and under it no
\* request gets past the authorization: every request is refused and
\* nothing is built for or sent to the target socket.
C6_EmptyListDeniesAll ==
  (accessRulesList = <<>>) =>
    /\ accessRulesMap = EmptyMap
    /\ \A r \in Reqs :
         /\ pc[r] \in {"idle", "Received", "MethodChecked", "Denied", "BadMethod"}
         /\ TargetUntouched(r)
         /\ pc[r] = "Denied" => w[r] = <<unauthorizedMsgString>>

\* Under the empty list a request with a supported method has been denied.
C6_Witness ==
  /\ accessRulesList = <<>>
  /\ \E r \in Reqs : pc[r] = "Denied" /\ req[r].Method = MethodGet

\* s is an initial part of t.
IsPrefix(s, t) == Len(s) <= Len(t) /\ s = SubSeq(t, 1, Len(s))

\* The body each terminal state has written.
OneBody(r) ==
  /\ pc[r] \in Terminal => bodies[r] = 1
  /\ pc[r] = "Copying" => bodies[r] = 1 /\ IsPrefix(w[r], response[r])
  /\ pc[r] \notin Terminal \cup {"Copying"} => bodies[r] = 0 /\ w[r] = <<>>
  /\ pc[r] = "BadMethod" => w[r] = <<badRequestString>>
  /\ pc[r] = "Denied" => w[r] = <<unauthorizedMsgString>>
  /\ pc[r] = "InternalError" => w[r] = <<internalErrorString>>
  /\ pc[r] = "TimedOut" => w[r] = <<requestTimeoutString>>
  /\ pc[r] = "Relayed" => IsPrefix(w[r], response[r])

\* C7: a handling ends in one of the five terminal states with exactly one
\* body written: the fixed body of its state, or bytes of the target's
\* response and nothing else; before that no fixed body has been written,
\* and after it nothing more is written.
C7_ExactlyOneBody ==
  /\ [](\A r \in Reqs : OneBody(r))
  /\ [][\A r \in Reqs :
          pc[r] \in Terminal =>
            \/ pc'[r] = pc[r] /\ w'[r] = w[r] /\ bodies'[r] = bodies[r]
            \/ pc'[r] = "idle"]_vars

\* Each terminal state is reached; here the one after a relay.
C7_Witness ==
  \E r \in Reqs : pc[r] = "Relayed" /\ bodies[r] = 1 /\ w[r] = <<"o", "k">>

\* C8: when the target has accepted the request and stays silent, the
\* handler does not wait for ever: the deadline passes, the call is
\* abandoned, and the caller gets the request timeout body.
C8_SilentTargetTimesOut ==
  \A r \in Reqs :
    (pc[r] = "AwaitingResponse" /\ backend[r] = "silent")
      ~> (/\ pc[r] = "TimedOut"
          /\ errReqPerform[r] = "deadline"
          /\ elapsed[r] = TimeoutSeconds
          /\ w[r] = <<requestTimeoutString>>)

\* A request to a silent target has timed out.
C8_Witness ==
  \E r \in Reqs :
    /\ pc[r] = "TimedOut"
    /\ backend[r] = "silent"
    /\ errReqPerform[r] = "deadline"

\* C9: when the dial of the target socket fails, or the connection breaks,
\* the caller gets the request timeout body, and the process goes on
\* serving.
C9_TransportErrorIsTimeout ==
  \A r \in Reqs :
    errReqPerform[r] \in {"dial", "reset"} =>
      /\ pc[r] = "TimedOut"
      /\ w[r] = <<requestTimeoutString>>
      /\ bodies[r] = 1
      /\ phase = "serving"

\* A request has ended on a failed dial.
C9_Witness ==
  \E r \in Reqs :
    /\ errReqPerform[r] = "dial"
    /\ pc[r] = "TimedOut"
    /\ sent[r] = <<>>

\* C10: after a relay the caller has exactly the body of the target's
\* response, whole.
C10_RelayedBodyComplete ==
  \A r \in Reqs : pc[r] = "Relayed" => w[r] = response[r]

\* C11: the target socket receives at most one request for one inbound
\* request, whatever the outcome.
C11_AtMostOneOutbound ==
  \A r \in Reqs : Len(sent[r]) <= 1

\* The fixed body of each outcome that is not a relay.
FailureBody(state) ==
  CASE state = "BadMethod" -> badRequestString
    [] state = "Denied" -> unauthorizedMsgString
    [] state = "InternalError" -> internalErrorString
    [] state = "TimedOut" -> requestTimeoutString

\* C12: a handling that ends without a relay has written the fixed body of
\* its outcome and nothing else, and the body after a failed call of the
\* target is the same whatever the error was: two handlings that end on
\* different errors of Do have written the same bytes.
C12_FixedFailureBodies ==
  /\ \A r \in Conns :
       pc[r] \in Terminal \ {"Relayed"} => w[r] = <<FailureBody(pc[r])>>
  /\ \A r1, r2 \in Conns :
       (/\ pc[r1] = "TimedOut"
        /\ pc[r2] = "TimedOut"
        /\ errReqPerform[r1] # errReqPerform[r2]) => w[r1] = w[r2]

\* Two handlings of the same request have ended, one on a broken connection
\* and one on the deadline.
C12_Witness ==
  /\ req["r1"] = req["r2"]
  /\ pc["r1"] = "TimedOut" /\ errReqPerform["r1"] = "reset"
  /\ pc["r2"] = "TimedOut" /\ errReqPerform["r2"] = "deadline"
  /\ w["r1"] = <<requestTimeoutString>>

\* The methods and paths the tables are probed with.
ProbeMethods == SupportedMethods \cup {MethodOptions, <<>>}

ProbePaths == ReqPaths \cup {<<>>, <<"/">>}

\* C13: compiling the same lines again gives an equivalent table: whatever
\* order the range over the map takes, the table answers every probe as the
\* table that was built does.
C13_CompileDeterministic ==
  (phase # "init") =>
    LET collected == CollectRules(EmptyMap, accessRulesList) IN
    \A order \in KeyOrders(DOMAIN collected) :
      \A method \in ProbeMethods, path \in ProbePaths :
        Allowed(SortInOrder(collected, order), method, path)
          <=> Allowed(accessRulesMap, method, path)

\* A list with two methods, the paths of one of them out of order, has been
\* compiled, and a path of that method is allowed.
C13_Witness ==
  /\ phase # "init"
  /\ accessRulesList = << MethodGet \o <<"~", "/", "a", "?", "b">>,
                          MethodGet \o <<"~", "/", "a">>,
                          MethodPost \o <<"~", "/", "a">> >>
  /\ Allowed(accessRulesMap, MethodGet, <<"/", "a">>)
  /\ Allowed(accessRulesMap, MethodPost, <<"/", "a">>)

\* The rule list holds a line that splits into exactly the two fields.
Listed(lines, method, path) ==
  \E i \in 1..Len(lines) :
    Split(lines[i], accessRuleStringDelimiter) = <<method, path>>

\* C14: under the table compiled from a rule list, the authorizer allows a
\* supported method and a path exactly when the list holds a line that
\* splits into these two fields; a prefix, an extension or a trailing-slash
\* variant of a listed path, and a method without a list, are denied.
C14_AllowedIffListed ==
  (phase # "init") =>
    \A method \in SupportedMethods, path \in ProbePaths :
      Allowed(accessRulesMap, method, path) <=> Listed(accessRulesList, method, path)

\* Three paths are listed for GET, out of order; the listed path is allowed,
\* its variants and the method without a list are denied.
C14_Witness ==
  /\ phase # "init"
  /\ accessRulesList = << MethodGet \o <<"~", "/", "a">>,
                          MethodGet \o <<"~", "/", "%", "4", "1">>,
                          MethodGet \o <<"~", "/", "%">> >>
  /\ Allowed(accessRulesMap, MethodGet, <<"/", "a">>)
  /\ ~Allowed(accessRulesMap, MethodGet, <<"/", "a", "/">>)
  /\ ~Allowed(accessRulesMap, MethodGet, <<"/">>)
  /\ ~Allowed(accessRulesMap, MethodGet, <<"/", "a", "?", "b">>)
  /\ ~Allowed(accessRulesMap, MethodPost, <<"/", "a">>)

\* C19: the authorizer never reads outside a path list: every key of the
\* compiled table has a list that is not empty, the index the search returns
\* is at most the length of the list, and the list is read at valid indices
\* only, by the search and by the handler (which does not read it at all
\* when the index is the length); the request is allowed exactly when the
\* element read is the path.
C19_NoReadOutsideList ==
  (phase # "init") =>
    \A method \in DOMAIN accessRulesMap :
      LET a == accessRulesMap[method] IN
      /\ Len(a) >= 1
      /\ \A path \in ProbePaths :
           LET requestAllowanceRuleIndex == SearchStrings(a, path) IN
           /\ requestAllowanceRuleIndex \in 0..Len(a)
           /\ SearchReads(a, path, 0, Len(a)) \subseteq 0..(Len(a) - 1)
           /\ IndexedAt(a, requestAllowanceRuleIndex) \subseteq 0..(Len(a) - 1)
           /\ Allowed(accessRulesMap, method, path)
                <=> \E i \in IndexedAt(a, requestAllowanceRuleIndex) : a[i + 1] = path

\* A method has a list of three paths; one probe sorts after all of them, so
\* that the search returns the length and the list is not read, and another
\* is found at the last index.
C19_Witness ==
  /\ phase # "init"
  /\ MethodGet \in DOMAIN accessRulesMap
  /\ LET a == accessRulesMap[MethodGet] IN
     /\ Len(a) = 3
     /\ SearchStrings(a, <<"/", "b">>) = 3
     /\ IndexedAt(a, SearchStrings(a, <<"/", "b">>)) = {}
     /\ SearchStrings(a, <<"/", "a", "?", "b">>) = 2
     /\ IndexedAt(a, 2) = {2}

\* C15: the table is built once, before the server takes a request, and no
\* step of a handler changes it: while a request is handled the server is
\* serving with the table compiled from the rules file, the table is written
\* only by the step that leaves the initial phase, and from then on the
\* table and the rules it came from stay as they are, whatever the two
\* connections do.
C15_TableFrozen ==
  /\ [](/\ \A r \in Conns : pc[r] # "idle" => phase = "serving"
        /\ phase = "serving" => accessRulesMap = determineAccessRules(accessRulesList))
  /\ [][/\ accessRulesList' = accessRulesList
        /\ accessRulesMap' # accessRulesMap => phase = "init" /\ phase' = "built"
        /\ phase # "init" => phase' # "init"]_vars

\* Both connections are in a handler at once, one relaying and one that has
\* denied a request for a method without a list.
C15_Witness ==
  /\ pc["r1"] = "Copying"
  /\ pc["r2"] = "Denied"
  /\ req["r2"].Method = MethodPost
  /\ accessRulesMap = determineAccessRules(accessRulesList)
  /\ DOMAIN accessRulesMap = {MethodGet}

\* Everything one connection's handler holds.
Local(r) ==
  <<pc[r], req[r], elapsed[r], httpRequest[r], errReqPerform[r], backend[r],
    response[r], w[r], bodies[r], sent[r]>>

\* The terminal state of a request handled on its own, from the table, the
\* request, and how the call of the target went for it.
OutcomeAlone(m, q, err) ==
  IF ~IsSupported(q.Method) THEN "BadMethod"
  ELSE IF ~Allowed(m, q.Method, q.Path) THEN "Denied"
  ELSE IF Outbound(q).err THEN "InternalError"
  ELSE IF err # "none" THEN "TimedOut"
  ELSE "Relayed"

\* Some step of the connection's handler, other than the call of
\* http.NewRequest (which returns at once, with a request or with an error).
HandlerStep(r) ==
  \/ Tick(r) \/ MethodSupported(r) \/ MethodUnsupported(r) \/ Deny(r) \/ Allow(r)
  \/ DoDialFail(r)
  \/ \E mode \in BackendModes : DoSend(r, mode)
  \/ \E location \in RedirectPaths, mode \in BackendModes : DoRedirect(r, location, mode)
  \/ DoRedirectLimit(r) \/ DoConnReset(r) \/ DoDeadline(r)
  \/ \E body \in RespBodies : DoResponse(r, body)
  \/ CopyChunk(r) \/ CopyEOF(r) \/ CopyDeadline(r) \/ Return(r)

\* C16: requests handled at once do not affect each other: the terminal
\* state of each is the one it has when handled alone under the same table
\* and the same behaviour of the target, with the body of that state; a
\* handler always has a step to take, whatever the other connection does;
\* and a step changes what one connection holds and nothing of the other.
C16_ConcurrentIndependent ==
  /\ [](\A r \in Conns :
          /\ pc[r] \in Terminal =>
               /\ pc[r] = OutcomeAlone(accessRulesMap, req[r], errReqPerform[r])
               /\ pc[r] # "Relayed" => w[r] = <<FailureBody(pc[r])>>
               /\ pc[r] = "Relayed" => IsPrefix(w[r], response[r])
          /\ pc[r] \notin {"idle", "ConstructingUpstream"} => ENABLED HandlerStep(r))
  /\ [][\A r1, r2 \in Conns :
          (r1 # r2 /\ Local(r1)' # Local(r1)) => Local(r2)' = Local(r2)]_vars

\* The same request has been handled on both connections at once, and the
\* two handlings ended differently, each as the target behaved for it.
C16_Witness ==
  /\ req["r1"] = req["r2"]
  /\ pc["r1"] = "Relayed" /\ w["r1"] = <<"o", "k">>
  /\ pc["r2"] = "TimedOut" /\ errReqPerform["r2"] = "dial"

\* The two inbound requests have the same method, path and body.
SameButQueryAndHeaders(q1, q2) ==
  /\ q1.Method = q2.Method
  /\ q1.Path = q2.Path
  /\ q1.Body = q2.Body

\* The handler has taken its decision on the request.
Decided(r) == pc[r] \notin {"idle", "Received", "MethodChecked"}

\* The handler is past the call of http.NewRequest.
Constructed(r) == Decided(r) /\ pc[r] \notin {"BadMethod", "Denied", "ConstructingUpstream"}

\* C18: the decision and the outbound request depend only on the method,
\* the path and the body of the inbound request: two requests that differ
\* only in their query string or headers are both refused in the same way
\* or both let through, and when let through give the same outbound request,
\* which is the one for the synthetic host followed by the inbound path and
\* carries nothing of the inbound query string or headers.
C18_QueryAndHeadersIgnored ==
  /\ [](\A r1, r2 \in Conns :
          (/\ SameButQueryAndHeaders(req[r1], req[r2])
           /\ Decided(r1)
           /\ Decided(r2)) =>
            /\ pc[r1] \in {"BadMethod", "Denied"} => pc[r2] = pc[r1]
            /\ (Constructed(r1) /\ Constructed(r2))
                 => (pc[r1] = "InternalError" <=> pc[r2] = "InternalError")
            /\ (httpRequest[r1] # NoRequest /\ httpRequest[r2] # NoRequest)
                 => httpRequest[r1] = httpRequest[r2]
            /\ (sent[r1] # <<>> /\ sent[r2] # <<>>) => sent[r1][1] = sent[r2][1])
  /\ [][\A r \in Conns :
          (httpRequest'[r] # httpRequest[r] /\ httpRequest'[r] # NoRequest) =>
            /\ httpRequest'[r] = NewRequest(req[r].Method, UnixHostPrefix \o req[r].Path,
                                            req[r].Body)
            /\ IndexByte(req[r].Path, "?") = 0 => httpRequest'[r].RawQuery = <<>>
            /\ req'[r] = req[r]]_vars

\* A request with a query string and the same request without one have both
\* been sent to the target, as the same outbound request, without a query.
C18_Witness ==
  /\ pc["r1"] = "AwaitingResponse"
  /\ pc["r2"] = "AwaitingResponse"
  /\ req["r1"].RawQuery = <<"q">>
  /\ req["r2"].RawQuery = <<>>
  /\ req["r2"].Header = <<>>
  /\ SameButQueryAndHeaders(req["r1"], req["r2"])
  /\ sent["r1"] # <<>>
  /\ sent["r1"] = sent["r2"]
  /\ sent["r1"][1].Path = <<"/", "a">>
  /\ sent["r1"][1].RawQuery = <<>>

\* The methods the rule lines register for the path.
RegisteredMethods(lines, path) ==
  {Split(lines[i], accessRuleStringDelimiter)[1] :
     i \in {j \in 1..Len(lines) :
              /\ Len(Split(lines[j], accessRuleStringDelimiter)) = 2
              /\ Split(lines[j], accessRuleStringDelimiter)[2] = path}}

====
